---- MODULE Spec2Model ----
(***************************************************************************)
(* Model of edast/go-utils: the generic LRU cache (cache.LRUCache) and the *)
(* single-slot overwriting queue (stream.LatestItemQueue) and the binary   *)
(* heap (stream.PriorityQueue).                                            *)
(*                                                                         *)
(* Five specifications share the variables:                               *)
(*   Spec       every LRUCache call is one atomic action (whole handler)   *)
(*   SpecConc   goroutines run Get and Put statement by statement under    *)
(*              the mutex c.mu                                             *)
(*   SpecFair   as SpecConc, with goroutines that wait in c.mu.Lock(), a    *)
(*              fair scheduler and a mutex that starves no waiter          *)
(*   SpecQueue  goroutines run LatestItemQueue.Produce, Close and receives *)
(*              on ConsumeChannel statement by statement                   *)
(*   SpecPQ     one goroutine calls the methods of stream.PriorityQueue    *)
(*              and container/heap's Push and Pop on it                    *)
(*                                                                         *)
(* A list element (a list.Element pointer) is named by the key of the     *)
(* entry it holds; ListKeysDistinct states what makes that naming sound.   *)
(***************************************************************************)
EXTENDS Integers, Sequences, FiniteSets, TLC

\* ------------------------------------------------------------- bounds
MaxCapacity == 2
NumKeys == 3
NumVals == 2
NumGoroutines == 2

Keys == 1..NumKeys
Vals == 1..NumVals
\* The zero values of K and V (Go's "var zero V").
ZeroKey == 0
ZeroVal == 0
\* Arguments NewLRUCache is called with, non-positive ones included.
Capacities == (0 - 1)..MaxCapacity
Goroutines == 1..NumGoroutines
\* "No value": what lastPut holds for a key that is not live.
NoVal == ZeroVal - 1

NumItems == 2
Items == 1..NumItems
\* The zero value of T, what a receive from a closed, empty channel yields.
ZeroItem == 0
\* make(chan T, 1)
ChannelCap == 1
\* Produce calls that get past "case <-q.closed" in one run.
MaxProduced == 3
\* Receives counted after a Close call has returned.
MaxRecvAfterClose == 2

\* Item records a run allocates; priorities range over as many values.
NumPQItems == 3
ItemIds == 1..NumPQItems
Priorities == 1..NumPQItems
\* Update and direct Swap calls in one run.
MaxUpdates == 1
\* The values Update is called with.
PQVals == 1..MaxUpdates
\* Go's nil, as the return value of Pop.
Nil == 0
Positions == 0..(NumPQItems - 1)
\* The index Pop gives a removed item.
Removed == 0 - 1

VARIABLES
    \* LRUCache
    cstate,     \* "unborn" | "ready" | "panicked" (NewLRUCache panicked)
    capacity,   \* c.capacity
    list,       \* c.list: sequence of entries, front (most recent) first
    dict,       \* c.dict: key -> list element (named by its entry's key)
    pool,       \* c.pool: retired entry records, stale fields kept
    mu,         \* c.mu: 0 when free, else the goroutine that holds it
    frame,      \* per goroutine: position and locals of its Get/Put call
    \* history variables
    argCap,     \* the argument NewLRUCache was called with
    last,       \* the last completed call: operation, arguments, result, state before
    touched,    \* live keys in order of their last touch, oldest first
    lastPut,    \* key -> value of the last Put on it, NoVal once evicted
    everPut,    \* SpecConc: keys some Put has inserted or updated
    lin,        \* SpecConc: list and dict as the calls in lock order produce them
    \* LatestItemQueue
    channel,        \* q.channel: the items in its buffer
    channelClosed,  \* q.channel is closed
    closed,         \* q.closed is closed
    proc,           \* per goroutine: position in its Produce/Close call, its item
    panic,          \* "none", or the run-time panic that ended the program
    \* history variables of the queue
    want,           \* items of the Produce calls that returned on an open queue,
                    \* no Produce begun and nothing received since
    wantAlone,      \* those of want whose call returned with no other Produce in progress
    next,           \* the last receive from ConsumeChannel: item, ok, and want, wantAlone then
    closeDone,      \* some Close call has returned
    recvAfterClose, \* items received from ConsumeChannel since closeDone
    produced,       \* Produce calls begun so far, numbered 1, 2, ... in call order
    serials,        \* for each item in q.channel, the number of the call that sent it
    serialOf,       \* per goroutine: the number of its Produce call in progress
    lastRecv,       \* the call number of the last item received from ConsumeChannel
    overlap,        \* some Produce call began while another was in progress
    \* PriorityQueue
    pq,             \* the slice: item records (named 1, 2, ...) by position
    pqItem,         \* per item record: its fields value, priority, index
    allocated,      \* item records created so far
    updates,        \* Update and direct Swap calls made so far
    popped,         \* what the last call returned, if it was a Pop: an item or Nil
    pqPanic,        \* a call on the queue panicked
    pushPopOnly     \* every call so far was pq.Push or heap.Pop

lruVars == <<cstate, capacity, list, dict, pool, mu, frame,
             argCap, last, touched, lastPut, everPut, lin>>
orderVars == <<produced, serials, serialOf, lastRecv, overlap>>
queueVars == <<channel, channelClosed, closed, proc, panic,
               want, wantAlone, next, closeDone, recvAfterClose, orderVars>>
pqVars == <<pq, pqItem, allocated, updates, popped, pqPanic, pushPopOnly>>
vars == <<lruVars, queueVars, pqVars>>

\* ------------------------------------------------- container/list, map
Front(l) == l[1]
Back(l) == l[Len(l)]
ListKeys(l) == {l[i].key : i \in 1..Len(l)}
HasElem(l, x) == \E i \in 1..Len(l) : l[i].key = x
Pos(l, x) == CHOOSE i \in 1..Len(l) : l[i].key = x
EntryOf(l, x) == l[Pos(l, x)]

PushFront(l, e) == <<e>> \o l

RemoveAt(l, i) == SubSeq(l, 1, i - 1) \o SubSeq(l, i + 1, Len(l))

\* list.Remove(elem): a no-op when elem is not an element of the list.
Remove(l, x) == IF HasElem(l, x) THEN RemoveAt(l, Pos(l, x)) ELSE l

MoveToFrontNoop(l, x) == l

\* list.MoveToFront(elem): a no-op when elem is not an element of the list.
MoveToFront(l, x) ==
    IF HasElem(l, x) THEN <<EntryOf(l, x)>> \o RemoveAt(l, Pos(l, x)) ELSE l

SetValueNoop(l, x, v) == l

\* elem.Value.value = val
SetValue(l, x, v) ==
    IF HasElem(l, x) THEN [l EXCEPT ![Pos(l, x)].value = v] ELSE l

\* No two nodes of a list hold the same key: what lets a key name a node.
ListKeysDistinct == Cardinality(ListKeys(list)) = Len(list)

\* delete(c.dict, key) that deletes nothing.
DictDeleteNoop(d, k) == d

DictDelete(d, k) == [x \in DOMAIN d \ {k} |-> d[x]]
DictSet(d, k, x) == [y \in DOMAIN d \cup {k} |-> IF y = k THEN x ELSE d[y]]

\* ------------------------------------------------------------ sync.Pool
\* sync.Pool may drop a record at any time and Get may treat the pool as
\* empty. Both are modelled in Get: it returns a pooled record, or the
\* pool has lost its records and it returns pool.New's.
\* pool.New
NewEntry == [key |-> ZeroKey, value |-> ZeroVal]

\* What pool.Get may return.
PoolGetChoices(p) == p \cup {NewEntry}

\* The pool after a Get that returned got.
PoolAfterGet(p, got) == IF got \in p THEN p \ {got} ELSE {}

\* pool.Put
PoolPut(p, e) == p \cup {e}

\* ------------------------------------------- LRUCache, whole handlers
\* The cache as a record, for the handlers written as functions of it.
Cache == [list |-> list, dict |-> dict, pool |-> pool]

CapacityRejectedBelowZero(c) == c < 0

\* NewLRUCache: "if capacity <= 0 { panic(...) }"
CapacityRejected(c) == c <= 0

AtCapacityStrict(c, cap) == Len(c.list) > cap

\* Put: "if c.list.Len() >= c.capacity"
AtCapacity(c, cap) == Len(c.list) >= cap

\* An evict that retires every entry of the list.
evictAll(c) ==
    [list |-> <<>>,
     dict |-> <<>>,
     pool |-> c.pool \cup {c.list[i] : i \in 1..Len(c.list)}]

\* evict: oldest := c.list.Back(); if oldest != nil { delete(c.dict,
\* oldEntry.key); c.list.Remove(oldest); c.pool.Put(oldEntry) }
evict(c) ==
    IF c.list = <<>> THEN c
    ELSE LET oldEntry == Back(c.list)
         IN  [list |-> Remove(c.list, oldEntry.key),
              dict |-> DictDelete(c.dict, oldEntry.key),
              pool |-> PoolPut(c.pool, oldEntry)]

GetEffectInsertOnMiss(c, key) ==
    IF key \in DOMAIN c.dict
    THEN [c EXCEPT !.list = MoveToFront(c.list, c.dict[key])]
    ELSE [c EXCEPT !.list = PushFront(c.list, [key |-> key, value |-> ZeroVal]),
                   !.dict = DictSet(c.dict, key, key)]

\* Get's effect on the cache: a hit moves the element to the front.
GetEffect(c, key) ==
    IF key \in DOMAIN c.dict
    THEN [c EXCEPT !.list = MoveToFront(c.list, c.dict[key])]
    ELSE c

\* Get's result <<value, found>>, read after the move.
GetResult(c, key) ==
    IF key \in DOMAIN c.dict /\ HasElem(c.list, c.dict[key])
    THEN <<EntryOf(c.list, c.dict[key]).value, TRUE>>
    ELSE <<ZeroVal, FALSE>>

PutEffectEvictFirst(c, cap, key, val, got) ==
    LET c0 == IF AtCapacity(c, cap) THEN evict(c) ELSE c
    IN  IF key \in DOMAIN c0.dict
        THEN [c0 EXCEPT !.list = MoveToFront(SetValue(c0.list, c0.dict[key], val),
                                             c0.dict[key])]
        ELSE LET e == [got EXCEPT !.key = key, !.value = val]
             IN  [c0 EXCEPT !.pool = PoolAfterGet(c0.pool, got),
                            !.list = PushFront(c0.list, e),
                            !.dict = DictSet(c0.dict, key, e.key)]

\* A Put that assigns the key of the record it got and leaves its value.
PutEffectStaleValue(c, cap, key, val, got) ==
    IF key \in DOMAIN c.dict
    THEN [c EXCEPT !.list = MoveToFront(SetValue(c.list, c.dict[key], val),
                                        c.dict[key])]
    ELSE LET e  == [got EXCEPT !.key = key]
             c1 == [c EXCEPT !.pool = PoolAfterGet(c.pool, got)]
             c2 == IF AtCapacity(c1, cap) THEN evict(c1) ELSE c1
         IN  [c2 EXCEPT !.list = PushFront(c2.list, e),
                        !.dict = DictSet(c2.dict, key, e.key)]

\* Put's effect on the cache; got is what pool.Get returned.
PutEffect(c, cap, key, val, got) ==
    IF key \in DOMAIN c.dict
    THEN [c EXCEPT !.list = MoveToFront(SetValue(c.list, c.dict[key], val),
                                        c.dict[key])]
    ELSE LET e  == [got EXCEPT !.key = key, !.value = val]
             c1 == [c EXCEPT !.pool = PoolAfterGet(c.pool, got)]
             c2 == IF AtCapacity(c1, cap) THEN evict(c1) ELSE c1
         IN  [c2 EXCEPT !.list = PushFront(c2.list, e),
                        !.dict = DictSet(c2.dict, key, e.key)]

\* ------------------------------------------------- history variables
\* last: the call that completed last. wasLive: its key was in the index
\* when it began; evicted: the keys it removed from the recency list;
\* oldest: the key that was live and least recently touched when it began
\* (ZeroKey when none was live); got: the record pool.Get returned to it,
\* with the fields it then had (NewEntry when the call made no pool.Get).
NoCall == [op |-> "none", key |-> ZeroKey, val |-> ZeroVal,
           ret |-> <<ZeroVal, FALSE>>, wasLive |-> FALSE,
           evicted |-> {}, oldest |-> ZeroKey, got |-> NewEntry]

Without(s, k) == SelectSeq(s, LAMBDA x : x # k)
Restrict(s, live) == SelectSeq(s, LAMBDA x : x \in live)

\* The touch order after a touch of k.
Touch(s, k) == Append(Without(s, k), k)

\* The least recently touched of the keys in live.
OldestOf(s, live) ==
    IF Restrict(s, live) = <<>> THEN ZeroKey ELSE Head(Restrict(s, live))

\* Keys whose entry a call removed from the recency list.
EvictedKeys(pre, post) == ListKeys(pre) \ ListKeys(post)

\* A goroutine's call: pc is its position, the rest its locals (key, val:
\* the arguments; elem: the element looked up or pushed; e: the record
\* from the pool; oldEntry: evict's; ret: Get's result).
IdleFrame == [pc |-> "idle", key |-> ZeroKey, val |-> ZeroVal,
              elem |-> ZeroKey, e |-> NewEntry, oldEntry |-> NewEntry,
              ret |-> <<ZeroVal, FALSE>>]

\* A goroutine outside any call on the queue.
IdleProc == [pc |-> "idle", item |-> ZeroItem]

\* No receive since the last Produce began or returned.
NoReceive == [item |-> ZeroItem, ok |-> FALSE, seen |-> FALSE,
              want |-> {}, wantAlone |-> {}]

\* An item record not created yet.
NoItem == [value |-> ZeroVal, priority |-> 0, index |-> 0]

\* The last call was not a Pop.
NoPop == Nil - 1

Init ==
    /\ cstate = "unborn"
    /\ capacity = 0
    /\ list = <<>>
    /\ dict = <<>>
    /\ pool = {}
    /\ mu = 0
    /\ frame = [g \in Goroutines |-> IdleFrame]
    /\ argCap = 0
    /\ last = NoCall
    /\ touched = <<>>
    /\ lastPut = [k \in Keys |-> NoVal]
    /\ everPut = {}
    /\ lin = [list |-> <<>>, dict |-> <<>>]
    \* NewLatestItemQueue(): both channels open, the buffer empty
    /\ channel = <<>>
    /\ channelClosed = FALSE
    /\ closed = FALSE
    /\ proc = [g \in Goroutines |-> IdleProc]
    /\ panic = "none"
    /\ want = {}
    /\ wantAlone = {}
    /\ next = NoReceive
    /\ closeDone = FALSE
    /\ recvAfterClose = 0
    /\ produced = 0
    /\ serials = <<>>
    /\ serialOf = [g \in Goroutines |-> 0]
    /\ lastRecv = 0
    /\ overlap = FALSE
    \* NewPriorityQueue(): the empty slice
    /\ pq = <<>>
    /\ pqItem = [x \in ItemIds |-> NoItem]
    /\ allocated = 0
    /\ updates = 0
    /\ popped = NoPop
    /\ pqPanic = FALSE
    /\ pushPopOnly = TRUE

\* NewLRUCache(capacity)
NewLRUCache(c) ==
    /\ cstate = "unborn"
    /\ argCap' = c
    /\ IF CapacityRejected(c)
       THEN /\ cstate' = "panicked"
            /\ UNCHANGED <<capacity, list, dict, pool>>
       ELSE /\ cstate' = "ready"
            /\ capacity' = c
            /\ list' = <<>>
            /\ dict' = <<>>
            /\ pool' = {}
    /\ UNCHANGED <<mu, frame, last, touched, lastPut, everPut, lin>>
    /\ UNCHANGED queueVars
    /\ UNCHANGED pqVars

\* c.Get(key), lock to unlock
Get(key) ==
    /\ cstate = "ready"
    /\ \E c \in {GetEffect(Cache, key)} :
       \E r \in {GetResult(c, key)} :
           /\ list' = c.list
           /\ dict' = c.dict
           /\ pool' = c.pool
           /\ last' = [op |-> "Get", key |-> key, val |-> ZeroVal, ret |-> r,
                       wasLive |-> key \in DOMAIN dict,
                       evicted |-> EvictedKeys(list, c.list),
                       oldest |-> OldestOf(touched, DOMAIN dict),
                       got |-> NewEntry]
           /\ touched' = IF r[2] THEN Touch(touched, key) ELSE touched
    /\ UNCHANGED <<cstate, capacity, mu, frame, argCap, lastPut, everPut, lin>>
    /\ UNCHANGED queueVars
    /\ UNCHANGED pqVars

\* c.Put(key, val), lock to unlock
Put(key, val) ==
    /\ cstate = "ready"
    /\ \E got \in PoolGetChoices(pool) :
       \E c \in {PutEffect(Cache, capacity, key, val, got)} :
       \E gone \in {EvictedKeys(list, c.list)} :
             /\ list' = c.list
             /\ dict' = c.dict
             /\ pool' = c.pool
             /\ last' = [op |-> "Put", key |-> key, val |-> val,
                         ret |-> <<ZeroVal, FALSE>>,
                         wasLive |-> key \in DOMAIN dict,
                         evicted |-> gone,
                         oldest |-> OldestOf(touched, DOMAIN dict),
                         got |-> IF key \in DOMAIN dict THEN NewEntry ELSE got]
             /\ touched' = Touch(Restrict(touched, Keys \ gone), key)
             /\ lastPut' = [k \in Keys |-> IF k = key THEN val
                                           ELSE IF k \in gone THEN NoVal
                                           ELSE lastPut[k]]
    /\ UNCHANGED <<cstate, capacity, mu, frame, argCap, everPut, lin>>
    /\ UNCHANGED queueVars
    /\ UNCHANGED pqVars

Next ==
    \/ \E c \in Capacities : NewLRUCache(c)
    \/ \E k \in Keys : Get(k)
    \/ \E k \in Keys, v \in Vals : Put(k, v)

Spec == Init /\ [][Next]_vars

\* ------------------------------- LRUCache, statement by statement
Step(g, pc) == [frame EXCEPT ![g].pc = pc]
LinCache == [list |-> lin.list, dict |-> lin.dict, pool |-> {}]
LinOf(c) == [list |-> c.list, dict |-> c.dict]

LockAvailableAlways == TRUE

\* sync.Mutex: Lock returns only when no goroutine holds the mutex.
LockAvailable == mu = 0

\* Get(key): "c.mu.Lock()" returns.
GetLock(g, key) ==
    /\ cstate = "ready"
    /\ frame[g].pc = "idle"
    /\ LockAvailable
    /\ mu' = g
    /\ frame' = [frame EXCEPT ![g].pc = "GetBody", ![g].key = key]
    /\ UNCHANGED <<cstate, capacity, list, dict, pool,
                   argCap, last, touched, lastPut, everPut, lin>>
    /\ UNCHANGED queueVars
    /\ UNCHANGED pqVars

\* Put(key, val): "c.mu.Lock()" returns.
PutLock(g, key, val) ==
    /\ cstate = "ready"
    /\ frame[g].pc = "idle"
    /\ LockAvailable
    /\ mu' = g
    /\ frame' = [frame EXCEPT ![g].pc = "PutBody", ![g].key = key, ![g].val = val]
    /\ UNCHANGED <<cstate, capacity, list, dict, pool,
                   argCap, last, touched, lastPut, everPut, lin>>
    /\ UNCHANGED queueVars
    /\ UNCHANGED pqVars

\* Get: "if elem, ok := c.dict[key]; ok { c.list.MoveToFront(elem);
\* return elem.Value.value, true }"
GetHit(g) ==
    /\ frame[g].pc = "GetBody"
    /\ frame[g].key \in DOMAIN dict
    /\ list' = MoveToFront(list, dict[frame[g].key])
    /\ frame' = [frame EXCEPT
                   ![g].pc = "Unlock",
                   ![g].elem = dict[frame[g].key],
                   ![g].ret = GetResult(Cache, frame[g].key)]
    /\ UNCHANGED <<cstate, capacity, dict, pool, mu,
                   argCap, last, touched, lastPut, everPut, lin>>
    /\ UNCHANGED queueVars
    /\ UNCHANGED pqVars

\* A miss that returns without "defer c.mu.Unlock()" having run.
GetMissReturnsLocked(g) ==
    /\ frame[g].pc = "GetBody"
    /\ frame[g].key \notin DOMAIN dict
    /\ frame' = [frame EXCEPT ![g] = IdleFrame]
    /\ UNCHANGED <<cstate, capacity, list, dict, pool, mu,
                   argCap, last, touched, lastPut, everPut, lin>>
    /\ UNCHANGED queueVars
    /\ UNCHANGED pqVars

\* Get: "var zero V; return zero, false"
GetMiss(g) ==
    /\ frame[g].pc = "GetBody"
    /\ frame[g].key \notin DOMAIN dict
    /\ frame' = [frame EXCEPT ![g].pc = "Unlock", ![g].ret = <<ZeroVal, FALSE>>]
    /\ UNCHANGED <<cstate, capacity, list, dict, pool, mu,
                   argCap, last, touched, lastPut, everPut, lin>>
    /\ UNCHANGED queueVars
    /\ UNCHANGED pqVars

\* Put: "if elem, ok := c.dict[key]; ok { elem.Value.value = val"
PutUpdate(g) ==
    /\ frame[g].pc = "PutBody"
    /\ frame[g].key \in DOMAIN dict
    /\ list' = SetValue(list, dict[frame[g].key], frame[g].val)
    /\ frame' = [frame EXCEPT ![g].pc = "PutMove", ![g].elem = dict[frame[g].key]]
    /\ UNCHANGED <<cstate, capacity, dict, pool, mu,
                   argCap, last, touched, lastPut, everPut, lin>>
    /\ UNCHANGED queueVars
    /\ UNCHANGED pqVars

\* Put: "c.list.MoveToFront(elem); return }"
PutMove(g) ==
    /\ frame[g].pc = "PutMove"
    /\ list' = MoveToFront(list, frame[g].elem)
    /\ frame' = Step(g, "Unlock")
    /\ UNCHANGED <<cstate, capacity, dict, pool, mu,
                   argCap, last, touched, lastPut, everPut, lin>>
    /\ UNCHANGED queueVars
    /\ UNCHANGED pqVars

\* Put: "e := c.pool.Get(); e.key = key; e.value = val"
PutPoolGet(g, got) ==
    /\ frame[g].pc = "PutBody"
    /\ frame[g].key \notin DOMAIN dict
    /\ pool' = PoolAfterGet(pool, got)
    /\ frame' = [frame EXCEPT
                   ![g].pc = "PutCheck",
                   ![g].e = [got EXCEPT !.key = frame[g].key, !.value = frame[g].val]]
    /\ UNCHANGED <<cstate, capacity, list, dict, mu,
                   argCap, last, touched, lastPut, everPut, lin>>
    /\ UNCHANGED queueVars
    /\ UNCHANGED pqVars

\* Put: "if c.list.Len() >= c.capacity" is false
PutNoEvict(g) ==
    /\ frame[g].pc = "PutCheck"
    /\ ~AtCapacity(Cache, capacity)
    /\ frame' = Step(g, "PutPush")
    /\ UNCHANGED <<cstate, capacity, list, dict, pool, mu,
                   argCap, last, touched, lastPut, everPut, lin>>
    /\ UNCHANGED queueVars
    /\ UNCHANGED pqVars

\* Put: "if c.list.Len() >= c.capacity { c.evict() }"; evict: "oldest :=
\* c.list.Back(); if oldest != nil { oldEntry := oldest.Value"
EvictBack(g) ==
    /\ frame[g].pc = "PutCheck"
    /\ AtCapacity(Cache, capacity)
    /\ frame' = IF list = <<>>
                THEN Step(g, "PutPush")
                ELSE [frame EXCEPT ![g].pc = "EvictDelete",
                                   ![g].oldEntry = Back(list)]
    /\ UNCHANGED <<cstate, capacity, list, dict, pool, mu,
                   argCap, last, touched, lastPut, everPut, lin>>
    /\ UNCHANGED queueVars
    /\ UNCHANGED pqVars

\* evict: "delete(c.dict, oldEntry.key)"
EvictDelete(g) ==
    /\ frame[g].pc = "EvictDelete"
    /\ dict' = DictDelete(dict, frame[g].oldEntry.key)
    /\ frame' = Step(g, "EvictRemove")
    /\ UNCHANGED <<cstate, capacity, list, pool, mu,
                   argCap, last, touched, lastPut, everPut, lin>>
    /\ UNCHANGED queueVars
    /\ UNCHANGED pqVars

\* evict: "c.list.Remove(oldest)"
EvictRemove(g) ==
    /\ frame[g].pc = "EvictRemove"
    /\ list' = Remove(list, frame[g].oldEntry.key)
    /\ frame' = Step(g, "EvictPoolPut")
    /\ UNCHANGED <<cstate, capacity, dict, pool, mu,
                   argCap, last, touched, lastPut, everPut, lin>>
    /\ UNCHANGED queueVars
    /\ UNCHANGED pqVars

\* evict: "c.pool.Put(oldEntry)"
EvictPoolPut(g) ==
    /\ frame[g].pc = "EvictPoolPut"
    /\ pool' = PoolPut(pool, frame[g].oldEntry)
    /\ frame' = Step(g, "PutPush")
    /\ UNCHANGED <<cstate, capacity, list, dict, mu,
                   argCap, last, touched, lastPut, everPut, lin>>
    /\ UNCHANGED queueVars
    /\ UNCHANGED pqVars

\* Put: "elem := c.list.PushFront(e)"
PutPush(g) ==
    /\ frame[g].pc = "PutPush"
    /\ list' = PushFront(list, frame[g].e)
    /\ frame' = [frame EXCEPT ![g].pc = "PutDict", ![g].elem = frame[g].e.key]
    /\ UNCHANGED <<cstate, capacity, dict, pool, mu,
                   argCap, last, touched, lastPut, everPut, lin>>
    /\ UNCHANGED queueVars
    /\ UNCHANGED pqVars

\* Put: "c.dict[key] = elem"
PutDict(g) ==
    /\ frame[g].pc = "PutDict"
    /\ dict' = DictSet(dict, frame[g].key, frame[g].elem)
    /\ frame' = Step(g, "Unlock")
    /\ UNCHANGED <<cstate, capacity, list, pool, mu,
                   argCap, last, touched, lastPut, everPut, lin>>
    /\ UNCHANGED queueVars
    /\ UNCHANGED pqVars

\* What the call of g, taken as one atomic step in lock order, makes of lin.
LinAfter(g) ==
    IF frame[g].val = ZeroVal
    THEN LinOf(GetEffect(LinCache, frame[g].key))
    ELSE LinOf(PutEffect(LinCache, capacity, frame[g].key, frame[g].val, NewEntry))

\* "defer c.mu.Unlock()", and the call returns.
Unlock(g) ==
    /\ frame[g].pc = "Unlock"
    /\ mu' = 0
    /\ frame' = [frame EXCEPT ![g] = IdleFrame]
    /\ lin' = LinAfter(g)
    /\ IF frame[g].val = ZeroVal
       THEN UNCHANGED <<lastPut, everPut>>
       ELSE /\ lastPut' = [k \in Keys |->
                             IF k = frame[g].key THEN frame[g].val
                             ELSE IF k \notin ListKeys(list) THEN NoVal
                             ELSE lastPut[k]]
            /\ everPut' = everPut \cup {frame[g].key}
    /\ UNCHANGED <<cstate, capacity, list, dict, pool, argCap, last, touched>>
    /\ UNCHANGED queueVars
    /\ UNCHANGED pqVars

NextConc ==
    \/ \E c \in Capacities : NewLRUCache(c)
    \/ \E g \in Goroutines, k \in Keys : GetLock(g, k)
    \/ \E g \in Goroutines, k \in Keys, v \in Vals : PutLock(g, k, v)
    \/ \E g \in Goroutines : GetHit(g)
    \/ \E g \in Goroutines : GetMiss(g)
    \/ \E g \in Goroutines : PutUpdate(g)
    \/ \E g \in Goroutines : PutMove(g)
    \/ \E g \in Goroutines, got \in PoolGetChoices(pool) : PutPoolGet(g, got)
    \/ \E g \in Goroutines : PutNoEvict(g)
    \/ \E g \in Goroutines : EvictBack(g)
    \/ \E g \in Goroutines : EvictDelete(g)
    \/ \E g \in Goroutines : EvictRemove(g)
    \/ \E g \in Goroutines : EvictPoolPut(g)
    \/ \E g \in Goroutines : PutPush(g)
    \/ \E g \in Goroutines : PutDict(g)
    \/ \E g \in Goroutines : Unlock(g)

SpecConc == Init /\ [][NextConc]_vars

\* ------------------------- LRUCache, with goroutines waiting for the lock
\* A goroutine calls Get or Put and reaches "c.mu.Lock()"; the arguments of
\* the call take part from the moment it has the lock.
Call(g) ==
    /\ cstate = "ready"
    /\ frame[g].pc = "idle"
    /\ frame' = Step(g, "Lock")
    /\ UNCHANGED <<cstate, capacity, list, dict, pool, mu,
                   argCap, last, touched, lastPut, everPut, lin>>
    /\ UNCHANGED queueVars
    /\ UNCHANGED pqVars

\* Get(key): "c.mu.Lock()" returns to a goroutine that waited in it.
GetAcquire(g, key) ==
    /\ frame[g].pc = "Lock"
    /\ LockAvailable
    /\ mu' = g
    /\ frame' = [frame EXCEPT ![g].pc = "GetBody", ![g].key = key]
    /\ UNCHANGED <<cstate, capacity, list, dict, pool,
                   argCap, last, touched, lastPut, everPut, lin>>
    /\ UNCHANGED queueVars
    /\ UNCHANGED pqVars

\* Put(key, val): "c.mu.Lock()" returns to a goroutine that waited in it.
PutAcquire(g, key, val) ==
    /\ frame[g].pc = "Lock"
    /\ LockAvailable
    /\ mu' = g
    /\ frame' = [frame EXCEPT ![g].pc = "PutBody", ![g].key = key, ![g].val = val]
    /\ UNCHANGED <<cstate, capacity, list, dict, pool,
                   argCap, last, touched, lastPut, everPut, lin>>
    /\ UNCHANGED queueVars
    /\ UNCHANGED pqVars

\* The arguments of the calls that wait for the lock: as many keys as the
\* largest capacity (one more than a cache of a smaller capacity holds, so
\* that Put evicts) and one value.
FairKeys == 1..MaxCapacity
FairVals == {NumVals}

\* The goroutine gets the lock it waits for.
Acquire(g) ==
    \/ \E k \in FairKeys : GetAcquire(g, k)
    \/ \E k \in FairKeys, v \in FairVals : PutAcquire(g, k, v)

\* The goroutine executes the next statement of its call, under the lock.
Run(g) ==
    \/ GetHit(g) \/ GetMiss(g)
    \/ PutUpdate(g) \/ PutMove(g)
    \/ \E got \in PoolGetChoices(pool) : PutPoolGet(g, got)
    \/ PutNoEvict(g)
    \/ EvictBack(g) \/ EvictDelete(g) \/ EvictRemove(g) \/ EvictPoolPut(g)
    \/ PutPush(g) \/ PutDict(g)
    \/ Unlock(g)

NextFair ==
    \/ \E c \in Capacities : NewLRUCache(c)
    \/ \E g \in Goroutines : Call(g)
    \/ \E g \in Goroutines, k \in FairKeys : GetAcquire(g, k)
    \/ \E g \in Goroutines, k \in FairKeys, v \in FairVals : PutAcquire(g, k, v)
    \/ \E g \in Goroutines : GetHit(g)
    \/ \E g \in Goroutines : GetMiss(g)
    \/ \E g \in Goroutines : PutUpdate(g)
    \/ \E g \in Goroutines : PutMove(g)
    \/ \E g \in Goroutines, got \in PoolGetChoices(pool) : PutPoolGet(g, got)
    \/ \E g \in Goroutines : PutNoEvict(g)
    \/ \E g \in Goroutines : EvictBack(g)
    \/ \E g \in Goroutines : EvictDelete(g)
    \/ \E g \in Goroutines : EvictRemove(g)
    \/ \E g \in Goroutines : EvictPoolPut(g)
    \/ \E g \in Goroutines : PutPush(g)
    \/ \E g \in Goroutines : PutDict(g)
    \/ \E g \in Goroutines : Unlock(g)

\* The scheduler lets every goroutine that can run a statement run it
\* (weak fairness), and sync.Mutex hands the lock to a goroutine that keeps
\* waiting for it (its starvation mode: strong fairness).
Fairness ==
    \A g \in Goroutines : WF_vars(Run(g)) /\ SF_vars(Acquire(g))

SpecFair == Init /\ [][NextFair]_vars /\ Fairness

\* ------------------------------------------------------ LatestItemQueue
\* A channel without a capacity: every send proceeds at once.
SendReadyAlways == TRUE

\* A send on q.channel can proceed: there is room in the buffer, or the
\* channel is closed (the send then panics).
SendReady == Len(channel) < ChannelCap \/ channelClosed

\* A receive from q.channel can proceed: an item is buffered, or the
\* channel is closed (the receive then yields the zero value, ok = false).
RecvReady == channel # <<>> \/ channelClosed

\* A receive that leaves the item in the buffer.
DequeueNothing(ch) == ch

\* What a receive leaves in the buffer: the first item is taken, if any.
Dequeue(ch) == IF ch # <<>> THEN Tail(ch) ELSE ch

\* A Produce call is past its select.
Producing(g) == proc[g].pc \in {"ProduceRecv", "ProduceSend"}

\* The goroutine returns from Produce(item) having sent it.
Produced(g, item) ==
    /\ proc' = [proc EXCEPT ![g] = IdleProc]
    /\ IF closed \/ channelClosed
       THEN UNCHANGED <<want, wantAlone>>
       ELSE /\ want' = want \cup {item}
            /\ wantAlone' = IF \E h \in Goroutines \ {g} : Producing(h)
                            THEN wantAlone ELSE wantAlone \cup {item}

\* Produce(item), select: "case <-q.closed: return"
ProduceClosed(g, item) ==
    /\ panic = "none"
    /\ proc[g].pc = "idle"
    /\ closed
    /\ want' = {}
    /\ wantAlone' = {}
    /\ next' = NoReceive
    /\ UNCHANGED <<channel, channelClosed, closed, proc, panic, closeDone>>
    /\ UNCHANGED <<recvAfterClose, orderVars>>
    /\ UNCHANGED lruVars
    /\ UNCHANGED pqVars

\* Produce(item), select: "case q.channel <- item:"
ProduceSelectSend(g, item) ==
    /\ panic = "none"
    /\ proc[g].pc = "idle"
    /\ SendReady
    /\ next' = NoReceive
    /\ IF channelClosed
       THEN /\ panic' = "send on closed channel"
            /\ want' = {}
            /\ wantAlone' = {}
            /\ UNCHANGED <<channel, proc>>
       ELSE /\ channel' = Append(channel, item)
            /\ proc' = proc
            /\ IF closed
               THEN want' = {} /\ wantAlone' = {}
               ELSE /\ want' = {item}
                    /\ wantAlone' = IF \E h \in Goroutines \ {g} : Producing(h)
                                    THEN {} ELSE {item}
            /\ UNCHANGED panic
    /\ UNCHANGED <<channelClosed, closed, closeDone>>
    /\ produced < MaxProduced
    /\ produced' = produced + 1
    /\ overlap' = (overlap \/ \E h \in Goroutines \ {g} : Producing(h))
    /\ serials' = IF channelClosed THEN serials ELSE Append(serials, produced + 1)
    /\ UNCHANGED <<recvAfterClose, serialOf, lastRecv>>
    /\ UNCHANGED lruVars
    /\ UNCHANGED pqVars

\* Produce(item), select: "default:", no other case can proceed
ProduceDefault(g, item) ==
    /\ panic = "none"
    /\ proc[g].pc = "idle"
    /\ ~closed
    /\ ~SendReady
    /\ proc' = [proc EXCEPT ![g] = [pc |-> "ProduceRecv", item |-> item]]
    /\ want' = {}
    /\ wantAlone' = {}
    /\ next' = NoReceive
    /\ UNCHANGED <<channel, channelClosed, closed, panic, closeDone>>
    /\ produced < MaxProduced
    /\ produced' = produced + 1
    /\ overlap' = (overlap \/ \E h \in Goroutines \ {g} : Producing(h))
    /\ serialOf' = [serialOf EXCEPT ![g] = produced + 1]
    /\ UNCHANGED <<recvAfterClose, serials, lastRecv>>
    /\ UNCHANGED lruVars
    /\ UNCHANGED pqVars

\* Produce, default: "<-q.channel", blocks while nothing can be received
ProduceDiscard(g) ==
    /\ panic = "none"
    /\ proc[g].pc = "ProduceRecv"
    /\ RecvReady
    /\ channel' = Dequeue(channel)
    /\ proc' = [proc EXCEPT ![g].pc = "ProduceSend"]
    /\ UNCHANGED <<channelClosed, closed, panic, want, wantAlone, next, closeDone>>
    /\ serials' = Dequeue(serials)
    /\ UNCHANGED <<recvAfterClose, produced, serialOf, lastRecv, overlap>>
    /\ UNCHANGED lruVars
    /\ UNCHANGED pqVars

\* Produce, default: "q.channel <- item", blocks while the buffer is full
ProduceResend(g) ==
    /\ panic = "none"
    /\ proc[g].pc = "ProduceSend"
    /\ SendReady
    /\ IF channelClosed
       THEN /\ panic' = "send on closed channel"
            /\ UNCHANGED <<channel, proc, want, wantAlone, next>>
       ELSE /\ channel' = Append(channel, proc[g].item)
            /\ Produced(g, proc[g].item)
            /\ next' = NoReceive
            /\ UNCHANGED panic
    /\ UNCHANGED <<channelClosed, closed, closeDone>>
    /\ IF channelClosed
       THEN UNCHANGED <<serials, serialOf>>
       ELSE /\ serials' = Append(serials, serialOf[g])
            /\ serialOf' = [serialOf EXCEPT ![g] = 0]
    /\ UNCHANGED <<recvAfterClose, produced, lastRecv, overlap>>
    /\ UNCHANGED lruVars
    /\ UNCHANGED pqVars

\* "<-q.ConsumeChannel()": a consumer receives, blocking while it cannot
Consume(g) ==
    /\ panic = "none"
    /\ proc[g].pc = "idle"
    /\ RecvReady
    /\ channel' = Dequeue(channel)
    /\ next' = [item |-> IF channel # <<>> THEN Head(channel) ELSE ZeroItem,
                ok |-> channel # <<>>, seen |-> TRUE,
                want |-> want, wantAlone |-> wantAlone]
    /\ want' = {}
    /\ wantAlone' = {}
    /\ UNCHANGED <<channelClosed, closed, proc, panic, closeDone>>
    /\ serials' = Dequeue(serials)
    /\ lastRecv' = IF channel # <<>> THEN Head(serials) ELSE lastRecv
    /\ recvAfterClose' = IF closeDone /\ channel # <<>> /\ recvAfterClose < MaxRecvAfterClose
                         THEN recvAfterClose + 1 ELSE recvAfterClose
    /\ UNCHANGED <<produced, serialOf, overlap>>
    /\ UNCHANGED lruVars
    /\ UNCHANGED pqVars

\* Close, select: "case <-q.closed: return"
CloseAlready(g) ==
    /\ panic = "none"
    /\ proc[g].pc = "idle"
    /\ closed
    /\ closeDone' = TRUE
    /\ UNCHANGED <<channel, channelClosed, closed, proc, panic, want, wantAlone, next>>
    /\ UNCHANGED <<recvAfterClose, orderVars>>
    /\ UNCHANGED lruVars
    /\ UNCHANGED pqVars

\* Close, select: "default:"
CloseDefault(g) ==
    /\ panic = "none"
    /\ proc[g].pc = "idle"
    /\ ~closed
    /\ proc' = [proc EXCEPT ![g].pc = "CloseClosed"]
    /\ UNCHANGED <<channel, channelClosed, closed, panic, want, wantAlone, next, closeDone>>
    /\ UNCHANGED <<recvAfterClose, orderVars>>
    /\ UNCHANGED lruVars
    /\ UNCHANGED pqVars

\* Close, default: "close(q.closed)"
CloseClosed(g) ==
    /\ panic = "none"
    /\ proc[g].pc = "CloseClosed"
    /\ IF closed
       THEN panic' = "close of closed channel" /\ UNCHANGED <<closed, proc>>
       ELSE /\ closed' = TRUE
            /\ proc' = [proc EXCEPT ![g].pc = "CloseChannel"]
            /\ UNCHANGED panic
    /\ UNCHANGED <<channel, channelClosed, want, wantAlone, next, closeDone>>
    /\ UNCHANGED <<recvAfterClose, orderVars>>
    /\ UNCHANGED lruVars
    /\ UNCHANGED pqVars

\* Close, default: "close(q.channel)", and the call returns
CloseChannel(g) ==
    /\ panic = "none"
    /\ proc[g].pc = "CloseChannel"
    /\ IF channelClosed
       THEN panic' = "close of closed channel"
            /\ UNCHANGED <<channelClosed, proc, closeDone>>
       ELSE /\ channelClosed' = TRUE
            /\ proc' = [proc EXCEPT ![g] = IdleProc]
            /\ closeDone' = TRUE
            /\ UNCHANGED panic
    /\ UNCHANGED <<channel, closed, want, wantAlone, next>>
    /\ UNCHANGED <<recvAfterClose, orderVars>>
    /\ UNCHANGED lruVars
    /\ UNCHANGED pqVars

NextQueue ==
    \/ \E g \in Goroutines, i \in Items : ProduceClosed(g, i)
    \/ \E g \in Goroutines, i \in Items : ProduceSelectSend(g, i)
    \/ \E g \in Goroutines, i \in Items : ProduceDefault(g, i)
    \/ \E g \in Goroutines : ProduceDiscard(g)
    \/ \E g \in Goroutines : ProduceResend(g)
    \/ \E g \in Goroutines : Consume(g)
    \/ \E g \in Goroutines : CloseAlready(g)
    \/ \E g \in Goroutines : CloseDefault(g)
    \/ \E g \in Goroutines : CloseClosed(g)
    \/ \E g \in Goroutines : CloseChannel(g)

SpecQueue == Init /\ [][NextQueue]_vars

\* -------------------------------------------------------- PriorityQueue
\* Go's integer division, which truncates toward zero.
GoDiv(a, b) == IF a >= 0 THEN a \div b ELSE 0 - ((0 - a) \div b)

\* The items in a slice.
Range(f) == {f[i] : i \in DOMAIN f}

\* The queue as the methods see it; positions count from 0 as in Go.
Heap == [pq |-> pq, item |-> pqItem]
At(h, i) == h.pq[i + 1]
PriorityAt(h, i) == h.item[At(h, i)].priority

\* Len()
PQLen(h) == Len(h.pq)

\* Less(i, j) with the comparison turned around: the lower priority first.
LessLowerFirst(h, i, j) == PriorityAt(h, i) < PriorityAt(h, j)

\* Less(i, j): "Higher value means higher priority."
Less(h, i, j) == PriorityAt(h, i) > PriorityAt(h, j)

\* Swap(i, j) that exchanges the two slots and leaves out the assignments
\* "pq[i].index = i" and "pq[j].index = j".
SwapSlotsOnly(h, i, j) ==
    [pq |-> [h.pq EXCEPT ![i + 1] = At(h, j), ![j + 1] = At(h, i)],
     item |-> h.item]

\* Swap(i, j)
Swap(h, i, j) ==
    LET xi == At(h, i)
        xj == At(h, j)
    IN  [pq |-> [h.pq EXCEPT ![i + 1] = xj, ![j + 1] = xi],
         item |-> [h.item EXCEPT ![xj].index = i, ![xi].index = j]]

\* Pop() that never takes "if n == 0".
PopNeverReturnsNil(h) == FALSE

\* Pop(): "if n == 0 { return nil }"
PopReturnsNil(h) == PQLen(h) = 0

\* Push(x): the item is appended, nothing is moved.
PushEffect(h, x) ==
    [pq |-> Append(h.pq, x),
     item |-> [h.item EXCEPT ![x].index = PQLen(h)]]

\* Pop() on a queue that is not empty: the LAST item is removed and returned.
PopEffect(h) ==
    LET n == PQLen(h)
        x == At(h, n - 1)
    IN  [pq |-> SubSeq(h.pq, 1, n - 1),
         item |-> [h.item EXCEPT ![x].index = Removed]]

\* container/heap: up(h, j)
RECURSIVE up(_, _)
up(h, j) ==
    LET i == GoDiv(j - 1, 2)
    IN  IF i = j THEN h
        ELSE IF ~Less(h, j, i) THEN h
        ELSE up(Swap(h, i, j), i)

\* container/heap: the loop of down(h, i0, n); yields the heap and the last i.
RECURSIVE downFrom(_, _, _)
downFrom(h, i, n) ==
    LET j1 == 2 * i + 1
    IN  IF j1 >= n \/ j1 < 0 THEN [h |-> h, i |-> i]
        ELSE LET j2 == j1 + 1
                 j == IF j2 < n THEN (IF Less(h, j2, j1) THEN j2 ELSE j1) ELSE j1
             IN  IF ~Less(h, j, i) THEN [h |-> h, i |-> i]
                 ELSE downFrom(Swap(h, i, j), j, n)

\* container/heap: down(h, i0, n), with its result "i > i0"
down(h, i0, n) ==
    LET r == downFrom(h, i0, n)
    IN  [h |-> r.h, moved |-> r.i > i0]

\* container/heap: Fix(h, i)
Fix(h, i) ==
    LET d == down(h, i, PQLen(h))
    IN  IF ~d.moved THEN up(d.h, i) ELSE d.h

\* container/heap: Push(h, x)
HeapPushEffect(h, x) ==
    LET h1 == PushEffect(h, x)
    IN  up(h1, PQLen(h1) - 1)

\* container/heap: Pop(h) on a queue that is not empty
HeapPopEffect(h) ==
    LET n == PQLen(h) - 1
    IN  PopEffect(down(Swap(h, 0, n), 0, n).h)

\* Update(item, value, priority)
UpdateEffect(h, x, v, p) ==
    LET h1 == [h EXCEPT !.item[x].value = v, !.item[x].priority = p]
    IN  Fix(h1, h1.item[x].index)

\* The caller creates "&Item{priority: p}", the next record.
NewItem(p) == [value |-> ZeroVal, priority |-> p, index |-> 0]

\* pq.Push(&Item{priority: p}), called directly as the tests do
Push(p) ==
    /\ ~pqPanic
    /\ allocated < NumPQItems
    /\ \E h \in {PushEffect([pq |-> pq,
                             item |-> [pqItem EXCEPT ![allocated + 1] = NewItem(p)]],
                            allocated + 1)} :
           pq' = h.pq /\ pqItem' = h.item
    /\ allocated' = allocated + 1
    /\ popped' = NoPop
    /\ UNCHANGED <<updates, pqPanic, pushPopOnly>>
    /\ UNCHANGED <<lruVars, queueVars>>

\* heap.Push(pq, &Item{priority: p})
HeapPush(p) ==
    /\ ~pqPanic
    /\ allocated < NumPQItems
    /\ \E h \in {HeapPushEffect([pq |-> pq,
                                 item |-> [pqItem EXCEPT ![allocated + 1] = NewItem(p)]],
                                allocated + 1)} :
           pq' = h.pq /\ pqItem' = h.item
    /\ allocated' = allocated + 1
    /\ popped' = NoPop
    /\ pushPopOnly' = FALSE
    /\ UNCHANGED <<updates, pqPanic>>
    /\ UNCHANGED <<lruVars, queueVars>>

\* pq.Pop(), called directly; without the check of n, "old[n-1]" on the
\* empty slice indexes out of range
Pop ==
    /\ ~pqPanic
    /\ IF PopReturnsNil(Heap)
       THEN /\ popped' = Nil
            /\ UNCHANGED <<pq, pqItem, pqPanic>>
       ELSE IF pq = <<>>
       THEN /\ pqPanic' = TRUE
            /\ popped' = NoPop
            /\ UNCHANGED <<pq, pqItem>>
       ELSE /\ popped' = pq[Len(pq)]
            /\ \E h \in {PopEffect(Heap)} : pq' = h.pq /\ pqItem' = h.item
            /\ UNCHANGED pqPanic
    /\ pushPopOnly' = FALSE
    /\ UNCHANGED <<allocated, updates>>
    /\ UNCHANGED <<lruVars, queueVars>>

\* heap.Pop(pq); on the empty queue Swap(0, -1) indexes out of range
HeapPop ==
    /\ ~pqPanic
    /\ IF pq = <<>>
       THEN /\ pqPanic' = TRUE
            /\ popped' = NoPop
            /\ UNCHANGED <<pq, pqItem>>
       ELSE /\ \E h \in {HeapPopEffect(Heap)} :
                /\ pq' = h.pq
                /\ pqItem' = h.item
                /\ popped' = CHOOSE x \in ItemIds :
                                 h.item[x].index = Removed /\ pqItem[x].index # Removed
            /\ UNCHANGED pqPanic
    /\ UNCHANGED <<allocated, updates, pushPopOnly>>
    /\ UNCHANGED <<lruVars, queueVars>>

\* pq.Update(item, v, p) for an item that was pushed, whether it is still
\* in the queue or Pop has removed it: the code does not look at the index
\* before it hands it to heap.Fix.  The code never inspects a value, so the
\* call passes the number of the call as the value.
Update(x, v, p) ==
    /\ ~pqPanic
    /\ x <= allocated
    /\ updates < MaxUpdates
    /\ v = updates + 1
    /\ updates' = updates + 1
    /\ \E h \in {UpdateEffect(Heap, x, v, p)} : pq' = h.pq /\ pqItem' = h.item
    /\ popped' = NoPop
    /\ pushPopOnly' = FALSE
    /\ UNCHANGED <<allocated, pqPanic>>
    /\ UNCHANGED <<lruVars, queueVars>>

\* pq.Swap(i, j), called directly; a position outside the slice indexes
\* out of range
SwapCall(i, j) ==
    /\ ~pqPanic
    /\ updates < MaxUpdates
    /\ updates' = updates + 1
    /\ IF i < Len(pq) /\ j < Len(pq)
       THEN /\ \E h \in {Swap(Heap, i, j)} : pq' = h.pq /\ pqItem' = h.item
            /\ UNCHANGED pqPanic
       ELSE /\ pqPanic' = TRUE
            /\ UNCHANGED <<pq, pqItem>>
    /\ popped' = NoPop
    /\ pushPopOnly' = FALSE
    /\ UNCHANGED allocated
    /\ UNCHANGED <<lruVars, queueVars>>

NextPQ ==
    \/ \E p \in Priorities : Push(p)
    \/ \E p \in Priorities : HeapPush(p)
    \/ Pop
    \/ HeapPop
    \/ \E i, j \in Positions : SwapCall(i, j)
    \/ \E x \in ItemIds, v \in PQVals, p \in Priorities : Update(x, v, p)

SpecPQ == Init /\ [][NextPQ]_vars

\* ---------------------------------------------------------- the claims
\* C1: in every reachable state of a cache built with capacity c >= 1,
\* the states inside a Put included, neither the recency list nor the
\* index holds more than c entries.
C1_CapacityInvariant ==
    cstate = "ready" =>
        /\ capacity >= 1
        /\ Len(list) <= capacity
        /\ Cardinality(DOMAIN dict) <= capacity

\* Inside a Put on a full cache of capacity >= 2: the eviction is done,
\* the insertion is not.
C1_Witness ==
    \E g \in Goroutines :
        /\ frame[g].pc = "PutPush"
        /\ frame[g].oldEntry # NewEntry
        /\ capacity >= 2
        /\ Len(list) = capacity - 1

\* C2: whenever a Put evicts, the evicted key is the live key whose last
\* touch (a Get that hit it, a Put that inserted or updated it) is the
\* oldest among the keys live when the Put began, and it is the only one.
C2_EvictsLeastRecentlyTouched ==
    (last.op = "Put" /\ last.evicted # {}) =>
        /\ last.oldest # ZeroKey
        /\ last.evicted = {last.oldest}
        /\ last.oldest \notin DOMAIN dict

\* A Put of a new key evicted an entry from a full cache that holds at
\* least two keys, so that there is a choice of victim.
C2_Witness ==
    /\ last.op = "Put"
    /\ capacity >= 2
    /\ last.evicted # {}
    /\ ~last.wasLive
    /\ Len(list) = capacity

NoCallInProgress == \A g \in Goroutines : frame[g].pc = "idle"

\* The index agrees with the recency list: the same keys, one node each,
\* every key mapped to the node that holds it.
IndexAgreesWithList ==
    /\ DOMAIN dict = ListKeys(list)
    /\ Cardinality(DOMAIN dict) = Len(list)
    /\ \A k \in DOMAIN dict : dict[k] = k

\* C3: the calls of the goroutines take effect one at a time, in the order
\* in which they get the lock: whenever the lock is free the list and the
\* index are what the calls so far, each run alone in that order, produce;
\* a call about to return has produced just its own effect and result on
\* that state; a call that begins finds the index agreeing with the list;
\* and when the keys ever Put fit within the capacity, once no call is in
\* progress every one of them is found with the value of its last Put.
C3_Linearizable ==
    /\ mu = 0 => (lin.list = list /\ lin.dict = dict)
    /\ \A g \in Goroutines :
         /\ frame[g].pc \in {"GetBody", "PutBody"} => IndexAgreesWithList
         /\ frame[g].pc = "Unlock" =>
              /\ LinAfter(g) = LinOf(Cache)
              /\ frame[g].val = ZeroVal =>
                   frame[g].ret = GetResult(GetEffect(LinCache, frame[g].key),
                                            frame[g].key)
    /\ (NoCallInProgress /\ Cardinality(everPut) <= capacity) =>
         \A k \in everPut :
            /\ k \in DOMAIN dict
            /\ HasElem(list, dict[k])
            /\ EntryOf(list, dict[k]).value = lastPut[k]

\* All calls are complete, two keys have been Put and fit within the
\* capacity, and one of them was Put a second time with another value.
C3_Witness ==
    /\ NoCallInProgress
    /\ Cardinality(everPut) = 2
    /\ capacity = 2
    /\ \E k \in everPut : lastPut[k] = NumVals /\ Back(list).key = k
    /\ \E k \in everPut : lastPut[k] # NumVals /\ Front(list).key = k

\* C4: Get(k) returns (v, true) exactly when k is live, v being the value
\* of the most recent Put(k, v); it returns (zero, false) when k was never
\* Put or has been evicted since its last Put.
C4_GetResult ==
    last.op = "Get" =>
        /\ last.ret[2] = last.wasLive
        /\ last.ret[2] = (lastPut[last.key] # NoVal)
        /\ last.ret[1] = (IF lastPut[last.key] # NoVal THEN lastPut[last.key]
                          ELSE ZeroVal)

\* A Get hit on a key after some other key was evicted.
C4_Witness ==
    /\ last.op = "Get"
    /\ last.ret = <<NumVals, TRUE>>
    /\ pool # {}

\* What C5 says of one step: were it a Put(k, v) on a live key k.
UpdateStep(k, v) ==
    (k \in DOMAIN dict /\ last'.key = k /\ last'.val = v /\ Put(k, v)) =>
        /\ DOMAIN dict' = DOMAIN dict
        /\ ListKeys(list') = ListKeys(list)
        /\ Len(list') = Len(list)
        /\ Front(list') = [key |-> k, value |-> v]
        /\ Tail(list') = SelectSeq(list, LAMBDA e : e.key # k)
        /\ pool' = pool
        /\ last'.evicted = {}

\* C5: a Put on a live key leaves the set of live keys and their count as
\* they were and evicts nothing, also on a full cache; it sets the key's
\* value and makes it the most recently used, the other entries keeping
\* their values and their order.
C5_UpdateNoEvict == [][\A k \in Keys, v \in Vals : UpdateStep(k, v)]_vars

\* A Put updated the only key of a full cache of capacity 1 to a new value.
C5_Witness ==
    /\ last.op = "Put"
    /\ capacity = 1
    /\ last.wasLive
    /\ lastPut[last.key] = last.val
    /\ last.val = NumVals

\* What C6 says of one step: were it a Get(k) on a key k that is not live.
MissStep(k) ==
    (k \notin DOMAIN dict /\ last'.key = k /\ Get(k)) =>
        /\ last'.ret = <<ZeroVal, FALSE>>
        /\ list' = list
        /\ dict' = dict
        /\ pool' = pool

\* C6: a Get on a key that is not live returns found = false and leaves
\* the live set, every value and the whole recency order unchanged.
C6_IdempotentMiss == [][\A k \in Keys : MissStep(k)]_vars

\* A Get missed on a full cache from which an entry had been evicted.
C6_Witness ==
    /\ last.op = "Get"
    /\ ~last.wasLive
    /\ pool # {}
    /\ Len(list) = capacity

\* C7: NewLRUCache panics for every capacity <= 0 and returns no cache;
\* for every capacity >= 1 it returns an empty cache with that capacity,
\* which no later call changes.
C7_NewFailsFast ==
    /\ (cstate # "unborn" /\ argCap <= 0) => cstate = "panicked"
    /\ cstate = "panicked" =>
          /\ argCap <= 0
          /\ capacity = 0 /\ list = <<>> /\ DOMAIN dict = {} /\ last.op = "none"
    /\ cstate = "ready" => (argCap >= 1 /\ capacity = argCap)
    /\ (cstate = "ready" /\ last.op = "none") =>
          (list = <<>> /\ DOMAIN dict = {} /\ pool = {})

\* NewLRUCache(0) panicked.
C7_Witness == cstate = "panicked" /\ argCap = 0

\* A Produce call is parked on q.channel: its receive or its send in the
\* default branch cannot proceed.
ProduceBlocked(g) ==
    \/ proc[g].pc = "ProduceRecv" /\ ~RecvReady
    \/ proc[g].pc = "ProduceSend" /\ ~SendReady

\* C8: Produce never blocks.  No reachable state has a Produce call waiting
\* on the channel while no other goroutine is inside a call that could
\* release it, so that the call waits forever unless a new call is made.
C8_ProduceNeverBlocks ==
    \A g \in Goroutines :
        ProduceBlocked(g) => \E h \in Goroutines \ {g} : proc[h].pc # "idle"

\* C9 as stated: whenever a consumer receives, every Produce(x) call that
\* has returned on the open queue with no Produce call started since
\* has its item x delivered by that receive, and at most one item is pending.
C9_LatestItemWins ==
    /\ Len(channel) <= ChannelCap
    /\ next.seen => \A x \in next.want : next.ok /\ next.item = x

\* C9 amended: at most one item is pending, and whenever a consumer
\* receives, a Produce(x) call that returned on the open queue while no
\* other Produce call was in progress, with no Produce call started since,
\* has its item x delivered by that receive.
C9_LatestItemWinsWhenAlone ==
    /\ Len(channel) <= ChannelCap
    /\ next.seen => \A x \in next.wantAlone : next.ok /\ next.item = x

\* A consumer has received the item of a Produce call that returned alone
\* after discarding the pending item of an earlier, concurrent Produce call.
C9_Witness ==
    /\ next.seen /\ next.ok
    /\ next.wantAlone # {}
    /\ next.want \ next.wantAlone # {}
    /\ panic = "none"

\* C10: Close is idempotent, also when called concurrently: no Close call
\* panics by closing a channel a second time.
C10_CloseIdempotent == panic # "close of closed channel"

\* C11: once a Close call has returned, consumers receive at most one more
\* item from ConsumeChannel (the one pending at Close); every receive after
\* it reports the channel closed.
C11_StreamAfterClose == recvAfterClose <= 1

\* C16: no Produce call, begun after Close returned or running concurrently
\* with Close, ever sends on the closed channel: the program never panics
\* with "send on closed channel", whatever case the select takes.
C16_NeverSendsOnClosed == panic # "send on closed channel"

\* A consumer receives an item (ok = true) in this step.
ReceiveStep == channel # <<>> /\ \E g \in Goroutines : Consume(g)

\* C18: as long as no two Produce calls have overlapped (a single producer
\* calls Produce one call after the other), every item received from
\* ConsumeChannel was passed to a later Produce call than the item received
\* before it: the received items are a subsequence of the produced ones,
\* in order, none received twice.
C18_DeliversInOrder == [][(ReceiveStep /\ ~overlap) => lastRecv' > lastRecv]_vars

\* A consumer has received the item of a second or later Produce call of a
\* run whose Produce calls never overlapped, on the open queue.
C18_Witness ==
    /\ ~overlap /\ ~closed /\ panic = "none"
    /\ lastRecv > 1
    /\ produced > lastRecv

\* The highest priority among the items in the queue (not empty).
MaxPriority(h) ==
    CHOOSE m \in {h.item[x].priority : x \in Range(h.pq)} :
        \A x \in Range(h.pq) : h.item[x].priority <= m

\* heap.Pop is called on a queue that is not empty.
HeapPopStep == pq # <<>> /\ HeapPop

\* C12: in a run that adds items with pq.Push and removes them with
\* heap.Pop only, every heap.Pop returns an item of the highest priority
\* among those in the queue.
C12_RetrievalOrder ==
    [][(pushPopOnly /\ HeapPopStep) => pqItem[popped'].priority = MaxPriority(Heap)]_vars

\* The next heap.Pop would return an item of maximal priority.
NextHeapPopIsMax ==
    pq # <<>> =>
        \E x \in Range(pq) :
            /\ HeapPopEffect(Heap).item[x].index = Removed
            /\ pqItem[x].priority = MaxPriority(Heap)

\* Update(x, v, p) is called on item x, which is in the queue.
PQUpdateStep(x, v, p) ==
    (pqItem[x].index # Removed /\ Update(x, v, p)) =>
        /\ pqItem'[x].value = v /\ pqItem'[x].priority = p
        /\ Len(pq') = Len(pq) /\ Range(pq') = Range(pq)
        /\ \A y \in ItemIds \ {x} :
               /\ pqItem'[y].value = pqItem[y].value
               /\ pqItem'[y].priority = pqItem[y].priority
        /\ NextHeapPopIsMax'

\* C13: Update(item, v, p) on an item in the queue sets its value and its
\* priority, keeps the length and the other items, and leaves the queue
\* such that the next heap.Pop returns an item of maximal priority.
C13_Update ==
    [][\A x \in ItemIds, v \in PQVals, p \in Priorities : PQUpdateStep(x, v, p)]_vars

\* C14: pq.Pop() on the empty queue returns nil, does not panic and
\* leaves the queue empty.
C14_EmptyPop ==
    [][(pq = <<>> /\ Pop) => (popped' = Nil /\ pq' = <<>> /\ ~pqPanic')]_vars

\* Pop has returned nil on a queue that earlier pops had emptied.
C14_Witness ==
    /\ popped = Nil /\ pq = <<>> /\ ~pqPanic
    /\ allocated > 0

\* C15: whenever the lock is free, the index and the recency list hold the
\* same keys, as many entries as keys, and every key of the index maps to
\* the one node whose entry has that key.
C15_IndexListConsistent ==
    mu = 0 =>
        /\ IndexAgreesWithList
        /\ \A k \in DOMAIN dict : HasElem(list, dict[k]) /\ EntryOf(list, dict[k]).key = k
        /\ \A i, j \in 1..Len(list) : list[i].key = list[j].key => i = j

\* The lock is free, the cache is full, and a key has been evicted: its
\* record is in the pool, its key neither in the list nor in the index.
C15_Witness ==
    /\ mu = 0 /\ cstate = "ready"
    /\ Len(list) = capacity
    /\ \E e \in pool : e.key # ZeroKey /\ e.key \notin DOMAIN dict

\* What C17 says of one step: were it a Put(k, v) of a key k that is not live.
InsertStep(k, v) ==
    (k \notin DOMAIN dict /\ last'.key = k /\ last'.val = v /\ Put(k, v)) =>
        LET gone == ListKeys(list) \ ListKeys(list')
        IN  /\ Cardinality(gone) = IF Len(list) = capacity THEN 1 ELSE 0
            /\ last'.evicted = gone
            /\ k \notin gone
            /\ Len(list') = IF Len(list) + 1 <= capacity THEN Len(list) + 1 ELSE capacity
            /\ ListKeys(list') = (ListKeys(list) \ gone) \cup {k}
            /\ Front(list') = [key |-> k, value |-> v]
            /\ k \in DOMAIN dict'

\* C17: a Put of a key that is not live removes exactly one live key when
\* the cache holds capacity entries and none otherwise; afterwards the
\* count of live keys is min(count + 1, capacity), the new key is live and
\* the most recently used, and the key removed is not the key inserted.
C17_OneEvictionPerPut == [][\A k \in Keys, v \in Vals : InsertStep(k, v)]_vars

\* A Put of a new key on a full cache of capacity 2 has evicted one key and
\* left the other live behind the new one.
C17_Witness ==
    /\ last.op = "Put" /\ ~last.wasLive
    /\ capacity = 2 /\ Len(list) = 2
    /\ Cardinality(last.evicted) = 1
    /\ Front(list).key = last.key
    /\ last.key \notin last.evicted

\* The cache without its pool: what a caller can observe of it.
Observable(c) == [list |-> c.list, dict |-> c.dict]

\* What C19 says of one step: a Put leaves the list and the index as the
\* same Put with a freshly allocated record does, ...
PooledPutStep(k, v) ==
    (last'.key = k /\ last'.val = v /\ Put(k, v)) =>
        Observable(Cache') = Observable(PutEffect(Cache, capacity, k, v, NewEntry))

\* ... and a Get returns, and leaves, what it does on a cache with no pool.
PooledGetStep(k) ==
    (last'.key = k /\ Get(k)) =>
        LET c == GetEffect([Cache EXCEPT !.pool = {}], k)
        IN  /\ Observable(Cache') = Observable(c)
            /\ last'.ret = GetResult(c, k)

\* C19: recycling entry records through the pool cannot be observed: every
\* Put, whatever record pool.Get hands it (a retired one that still carries
\* the key and value of an evicted entry, or a new one), and every Get
\* leaves the live keys, their values and the recency order, and returns,
\* what the same call does on a cache that allocates a new record for
\* every insertion.
C19_PoolingUnobservable ==
    [][/\ \A k \in Keys, v \in Vals : PooledPutStep(k, v)
       /\ \A k \in Keys : PooledGetStep(k)]_vars

\* A Put has inserted a key in a record from the pool that still carried
\* another key and another value, those of an entry evicted earlier.
C19_Witness ==
    /\ last.op = "Put" /\ ~last.wasLive
    /\ last.got.key \notin {ZeroKey, last.key}
    /\ last.got.value \notin {ZeroVal, last.val}
    /\ Front(list) = [key |-> last.key, value |-> last.val]

\* The goroutine is inside the critical section of its call.
InCriticalSection(g) == frame[g].pc \notin {"idle", "Lock"}

\* The lock is held by the one goroutine that is inside the critical
\* section, and is free when none is: free, too, when no call is in progress.
LockDiscipline ==
    /\ \A g \in Goroutines : InCriticalSection(g) <=> mu = g
    /\ NoCallInProgress => mu = 0

\* A step that writes the index, the recency list or the pool of a cache
\* in use is a step of the goroutine that holds the lock.
WritesUnderLock ==
    (cstate = "ready" /\ <<list, dict, pool>>' # <<list, dict, pool>>) =>
        \E g \in Goroutines : mu = g /\ InCriticalSection(g) /\ frame'[g] # frame[g]

\* C20: at most one call is inside the critical section at a time, the
\* index, the list and the pool are read and written under the lock only,
\* the lock is free whenever no call is in progress, and under fair
\* scheduling every Get and Put call that a goroutine has begun returns.
C20_CallsCompleteAndUnlock ==
    /\ []LockDiscipline
    /\ [][WritesUnderLock]_vars
    /\ \A g \in Goroutines : (frame[g].pc # "idle") ~> (frame[g].pc = "idle")

\* One goroutine waits in c.mu.Lock() while another, inside a Put that
\* evicts, holds the lock.
C20_Witness ==
    \E g, h \in Goroutines :
        /\ frame[h].pc = "Lock"
        /\ mu = g
        /\ frame[g].pc = "EvictRemove"

\* The items of the run that are in the queue, and those that Pop removed.
InQueue(x) == x \in Range(pq)
PositionOf(x) == CHOOSE i \in 0..(Len(pq) - 1) : pq[i + 1] = x

====
